---- MODULE Spec2Model ----
(***************************************************************************)
(* The content-generation pipeline of website/scripts/generate-content.ts. *)
(* Two revisions of the script are modelled; a behaviour runs one of them. *)
(*   variant = "llm"  : PLUGIN.md / SKILL.md are hashed and every stale    *)
(*                      unit is described by the DeepSeek API.             *)
(*   variant = "toml" : website.plugin.toml / website.skills.toml are the  *)
(*                      curated descriptors; the API only writes entries   *)
(*                      for skills of the amplify plugin that lack one.    *)
(* Files are modelled by what the scripts read from them: a raw text is a  *)
(* record of whether its parser accepts it (ok) and of the bytes appended  *)
(* to it (pad); a table of website.skills.toml also has its values (ver).  *)
(* Spec runs the content pipeline. SpecWorkflow runs the discovery step and *)
(* website/scripts/generate-workflow-diagram.ts, which builds one artifact *)
(* from several source files. SpecImages runs                              *)
(* website/scripts/generate-philosophy-images.ts; FairSpecImages adds the  *)
(* fairness of Node's event loop to it.                                    *)
(***************************************************************************)
EXTENDS Naturals, Sequences, FiniteSets, TLC

\* ---------------------------------------------------------------- bounds
MaxRuns == 2
MaxChanges == 1
MaxFaults == 1

\* -------------------------------------------------------------- universe
Plugins == {"amplify", "other"}
SkillNames == {"a", "b"}
\* Order in which readdirSync lists the plugin directories.
PluginOrder == <<"amplify", "other">>
\* Array.prototype.sort() order of the skill names.
SkillOrder == <<"a", "b">>

\* Directory trees: which skill directories (each holding a SKILL.md) a plugin has.
Layouts ==
  { [p \in Plugins |-> IF p = "amplify" THEN {"a"} ELSE {"b"}],
    [p \in Plugins |-> {"a"}],
    [p \in Plugins |-> IF p = "amplify" THEN {"a", "b"} ELSE {}] }

PluginUnit(p) == <<"plugin", p, p>>
SkillUnit(p, s) == <<"skill", p, s>>
AllUnits == {PluginUnit(p) : p \in Plugins} \cup {SkillUnit(p, s) : p \in Plugins, s \in SkillNames}

\* join(PLUGINS_OUTPUT_DIR, `${plugin.name}.json`), join(SKILLS_OUTPUT_DIR, `${skillName}.json`)
OutputPath(u) == <<u[1], u[3]>>
AllPaths == {OutputPath(u) : u \in AllUnits}

\* ------------------------------------------------------------ pure functions
\* sha256(content).digest("hex").slice(0, 16): a non-empty string; the model takes
\* the digest to be collision-free on the contents it meets.
computeHashOfPrefix(content) == <<Len(content), content[1]>>
computeHash(content) == <<Len(content)>> \o content

Null == << >>

NoPayload ==
  [pluginName |-> "", display_name |-> "none", tagline |-> "none", full_summary |-> "none",
   skills |-> << >>]
Absent == [st |-> "absent", sourceHash |-> Null, generatedAt |-> 0, payload |-> NoPayload]
Corrupt == [st |-> "corrupt", sourceHash |-> Null, generatedAt |-> 0, payload |-> NoPayload]

getExistingHashOfNothing(file) == Null
getExistingHash(file) ==
  IF file.st = "absent" THEN Null
  ELSE IF file.st = "corrupt" THEN Null
  ELSE IF file.sourceHash = << >> THEN Null ELSE file.sourceHash

\* The bytes of a raw descriptor or document.
Bool01(b) == IF b THEN 1 ELSE 0
RawBytes(raw) == <<Bool01(raw.ok), raw.pad>>

FieldCode(v) == IF v = "none" THEN 0 ELSE IF v = "cur" THEN 1 ELSE 2
\* JSON.stringify(skillToml): the parsed entry; undefined fields are left out, and the
\* table's name and the file's layout are not part of it.
JSONstringifyEntry(e) == <<FieldCode(e.display_name), FieldCode(e.tagline), FieldCode(e.full_summary), e.ver>>

NoEntry == [name |-> "", display_name |-> "none", tagline |-> "none", full_summary |-> "none", ver |-> 0]

TablesOf(file, s) == {i \in 1..Len(file.tables) : file.tables[i].name = s}

\* TOML.parse throws on a syntax error (a value written as `undefined` is one) and on a
\* table defined twice.
TOMLparseThrows(file) ==
  \/ ~file.ok
  \/ \E i \in 1..Len(file.tables) : file.tables[i].tagline = "undef"
  \/ \E s \in SkillNames : Cardinality(TablesOf(file, s)) > 1

\* skillsToml.skills?.[skillName]
TomlEntry(file, s) ==
  IF TablesOf(file, s) = {} THEN NoEntry
  ELSE file.tables[CHOOSE i \in TablesOf(file, s) : TRUE]

SortedSkills(set) == SelectSeq(SkillOrder, LAMBDA s : s \in set)

VARIABLES
  variant,      \* which revision of the script runs
  apiKey,       \* process.env.DEEPSEEK_API_KEY is set
  layout,       \* plugin -> its skill directories
  pluginSrc,    \* plugin -> raw PLUGIN.md (llm) or website.plugin.toml (toml)
  skillMd,      \* <<plugin, skill>> -> raw SKILL.md
  skillsToml,   \* plugin -> website.skills.toml
  artifact,     \* output path -> generated JSON file
  clock,        \* new Date()
  runs, changes, faults,
  pc, pi, si, todo,
  report,       \* unit -> the console line of this run about it
  calls,        \* unit -> chat.completions.create calls of this run
  failedCalls,  \* units whose call threw in this run (no, empty or unparsable response)
  writes,       \* output paths written by this run
  exitCode,
  since         \* what changed on disk between the previous run and this one, and how
                \* the previous run had ended

\* generate-workflow-diagram.ts, one composite unit (see the second half of the module).
VARIABLES
  revision,        \* which revision of generate-workflow-diagram.ts runs
  dirListing,      \* the orders readdirSync lists PLUGINS_DIR and SKILLS_DIR in
  hooksRaw,        \* hooks/hooks.json
  websiteRaw,      \* website.philosophy.toml
  skillDocs,       \* skill name -> text of its SKILL.md
  workflowFile,    \* generated/workflow/intelligence-scale.json
  forceRegenerate, \* process.argv.includes("--force") in the current run
  plugins,         \* discoverPlugins(): the plugin names, in processing order
  skills,          \* discoverSkills(): the skill names, in hashing order
  currentHash,
  wpc, wruns, wedits, wclock,
  wreport,         \* the console line about the artifact
  wexit

contentVars == <<variant, apiKey, layout, pluginSrc, skillMd, skillsToml, artifact, clock,
                 runs, changes, faults, pc, pi, si, todo, report, calls, failedCalls, writes, exitCode, since>>
workflowVars == <<revision, dirListing, hooksRaw, websiteRaw, skillDocs, workflowFile, forceRegenerate,
                  plugins, skills, currentHash, wpc, wruns, wedits, wclock, wreport, wexit>>

\* generate-philosophy-images.ts (see the last part of the module).
VARIABLES
  cliproxyKey,     \* process.env.CLIPROXY_API_KEY is set and not the placeholder
  imageFile,       \* image -> the file in public/images/philosophies
  argvForce,       \* process.argv.includes("--force") in the current run
  ipc, ii, iruns, iedits,
  successCount, failCount,
  attempted,       \* images generateImage was called for in this run
  skipped,         \* images skipped as already existing in this run
  iexit

imageVars == <<cliproxyKey, imageFile, argvForce, ipc, ii, iruns, iedits,
               successCount, failCount, attempted, skipped, iexit>>
vars == <<contentVars, workflowVars, imageVars>>

Ended == pc \in {"idle", "done", "exit1", "crashed"}
CurPlugin == PluginOrder[pi]
CurSkills == SortedSkills(layout[CurPlugin])

\* discoverPlugins(): every plugin directory with its descriptor, and its skill
\* directories that hold a SKILL.md.
Discovered ==
  {PluginUnit(p) : p \in Plugins} \cup UNION {{SkillUnit(p, s) : s \in layout[p]} : p \in Plugins}

\* The content a unit's digest is computed over.
HashedContent(u) ==
  IF u[1] = "plugin" THEN RawBytes(pluginSrc[u[2]])
  ELSE IF variant = "llm" THEN RawBytes(skillMd[<<u[2], u[3]>>])
  ELSE JSONstringifyEntry(TomlEntry(skillsToml[u[2]], u[3]))
CurrentDigest(u) == computeHash(HashedContent(u))

\* if (!entry || !entry.display_name || !entry.tagline || !entry.full_summary)
EntryMissingAlways(e) == TRUE
EntryMissing(e) == e = NoEntry \/ e.display_name = "none" \/ e.tagline = "none" \/ e.full_summary = "none"

CuratedEntry(s, kind) ==
  [name |-> s, display_name |-> "cur", tagline |-> IF kind = "partial" THEN "none" ELSE "cur",
   full_summary |-> "cur", ver |-> 0]
\* generateSkillContent's result as appendSkillToToml writes it: a response without a
\* tagline is written as `tagline = undefined`.
GeneratedEntry(s, llm) ==
  [name |-> s, display_name |-> "gen", tagline |-> IF llm = "nofield" THEN "undef" ELSE "gen",
   full_summary |-> "gen", ver |-> 0]

InitTables(lay, p, kinds) ==
  LET ss == SelectSeq(SkillOrder, LAMBDA s : s \in lay[p] /\ kinds[<<p, s>>] # "none")
  IN [i \in 1..Len(ss) |-> CuratedEntry(ss[i], kinds[<<p, ss[i]>>])]

NoChange(r, ok, good) ==
  [run |-> r, n |-> 0, kind |-> "none", unit |-> <<"", "", "">>, ok |-> ok, good |-> good]

\* const philosophyPrompts: the configured images (three of the eight entries).
philosophyPrompts == <<"ground-truth-first-raw", "parallelism", "plan-audit">>
Images == {philosophyPrompts[i] : i \in 1..Len(philosophyPrompts)}
NoImage == [exists |-> FALSE, complete |-> FALSE, writtenIn |-> 0]

\* The image script is not run.
ImagesIdle ==
  /\ cliproxyKey = TRUE
  /\ imageFile = [k \in Images |-> NoImage]
  /\ argvForce = FALSE
  /\ ipc = "idle" /\ ii = 0 /\ iruns = 0 /\ iedits = 0
  /\ successCount = 0 /\ failCount = 0
  /\ attempted = {} /\ skipped = {}
  /\ iexit = 0

\* The workflow-diagram script is not run: its files are absent from the behaviour.
WorkflowIdle ==
  /\ revision = "toml" /\ dirListing = [plugins |-> PluginOrder, skills |-> SkillOrder]
  /\ hooksRaw = [ok |-> TRUE, text |-> <<"x">>]
  /\ websiteRaw = [ok |-> TRUE, events |-> TRUE, text |-> <<"x">>]
  /\ skillDocs = [s \in SkillNames |-> <<"x">>]
  /\ workflowFile = Absent
  /\ forceRegenerate = FALSE
  /\ plugins = << >> /\ skills = << >> /\ currentHash = Null
  /\ wpc = "idle" /\ wruns = 0 /\ wedits = 0 /\ wclock = 0
  /\ wreport = "none" /\ wexit = 0

Init ==
  /\ variant \in {"llm", "toml"}
  /\ apiKey \in BOOLEAN
  /\ layout \in Layouts
  /\ \E bad \in {<<"none", "">>} \cup {<<"plugin", p>> : p \in Plugins}
                 \cup {<<"skills", p>> : p \in IF variant = "toml" THEN Plugins ELSE {}} :
     \E kinds \in [Plugins \X SkillNames -> IF variant = "toml" THEN {"none", "partial", "full"} ELSE {"none"}] :
       /\ \A p \in Plugins, s \in SkillNames : s \notin layout[p] => kinds[<<p, s>>] = "none"
       /\ bad[1] # "none" /\ variant = "toml" =>
            \A p \in Plugins : \A s \in layout[p] : kinds[<<p, s>>] = "full"
       /\ pluginSrc = [p \in Plugins |-> [ok |-> bad # <<"plugin", p>>, pad |-> 0]]
       /\ skillsToml = [p \in Plugins |->
            LET tables == InitTables(layout, p, kinds)
            IN [exists |-> tables # << >> \/ bad = <<"skills", p>>,
                ok |-> bad # <<"skills", p>>, pad |-> 0, tables |-> tables]]
  /\ skillMd = [k \in Plugins \X SkillNames |-> [ok |-> TRUE, pad |-> 0]]
  /\ artifact = [path \in AllPaths |-> Absent]
  /\ clock = 0
  /\ runs = 0 /\ changes = 0 /\ faults = 0
  /\ pc = "idle" /\ pi = 0 /\ si = 0 /\ todo = << >>
  /\ report = [u \in AllUnits |-> "none"]
  /\ calls = [u \in AllUnits |-> 0]
  /\ failedCalls = {}
  /\ writes = {}
  /\ exitCode = 0
  /\ since = NoChange(0, FALSE, FALSE)
  /\ WorkflowIdle
  /\ ImagesIdle

\* ------------------------------------------------------------ the run's position
FirstPc == IF variant = "toml" THEN "begin" ELSE "plugin"
PosAfterSkills(i) ==
  IF i < Len(PluginOrder) THEN [pc |-> FirstPc, pi |-> i + 1, si |-> 0]
  ELSE [pc |-> "done", pi |-> i, si |-> 0]
PosAfterPlugin(i) ==
  IF layout[PluginOrder[i]] # {} THEN [pc |-> "skill", pi |-> i, si |-> 1] ELSE PosAfterSkills(i)
PosAfterSkill(i, j) ==
  IF j < Cardinality(layout[PluginOrder[i]]) THEN [pc |-> "skill", pi |-> i, si |-> j + 1]
  ELSE PosAfterSkills(i)
Goto(pos) == pc' = pos.pc /\ pi' = pos.pi /\ si' = pos.si
\* An uncaught exception rejects main(): Node ends the process with status 1.
Crash == pc' = "crashed" /\ exitCode' = 1 /\ UNCHANGED <<pi, si>>

SourceFiles == <<layout, pluginSrc, skillMd, skillsToml>>
Env == <<variant, apiKey, clock, runs, changes>>

\* All units were generated or unchanged, and every artifact records its unit.
AllCurrent ==
  \A u \in Discovered :
    /\ artifact[OutputPath(u)].st = "valid"
    /\ artifact[OutputPath(u)].sourceHash = CurrentDigest(u)
    /\ (variant = "llm" /\ u[1] = "skill") => artifact[OutputPath(u)].payload.pluginName = u[2]
RunWasOk ==
  /\ pc = "done"
  /\ \A u \in Discovered : report[u] \in {"generated", "unchanged"}
RunWasGood == RunWasOk /\ AllCurrent

\* main(), up to the first plugin.
StartRun ==
  /\ Ended /\ runs < MaxRuns
  /\ runs' = runs + 1 /\ clock' = clock + 1
  /\ report' = [u \in AllUnits |-> "none"]
  /\ calls' = [u \in AllUnits |-> 0]
  /\ failedCalls' = {}
  /\ writes' = {}
  /\ todo' = << >>
  /\ since' = IF since.run = runs + 1 THEN since ELSE NoChange(runs + 1, RunWasOk, RunWasGood)
  /\ IF variant = "llm" /\ ~apiKey
       THEN pc' = "exit1" /\ exitCode' = 1 /\ pi' = 0 /\ si' = 0
       ELSE pc' = FirstPc /\ exitCode' = 0 /\ pi' = 1 /\ si' = 0
  /\ UNCHANGED <<variant, apiKey, changes, faults, artifact>>
  /\ UNCHANGED SourceFiles
  /\ UNCHANGED workflowVars
  /\ UNCHANGED imageVars

\* ------------------------------------------------------------ writing an artifact
NewArtifactWithoutHash(h, payload) == [st |-> "valid", sourceHash |-> Null, generatedAt |-> clock, payload |-> payload]
NewArtifact(h, payload) == [st |-> "valid", sourceHash |-> h, generatedAt |-> clock, payload |-> payload]

\* The try block of a stale unit: the API call (llm = "none" when the revision makes
\* none), then writeFileSync. A call that throws is caught and logged; so is a failing
\* write, which leaves the file as it was (the open failed) or truncated.
Regenerate(u, file, llm, wr) ==
  LET nf == Bool01(llm \in {"nofield", "fail"}) + Bool01(llm # "fail" /\ wr # "ok")
  IN /\ faults + nf <= MaxFaults
     /\ faults' = faults + nf
     /\ llm = "fail" => wr = "ok"
     /\ calls' = IF llm = "none" THEN calls ELSE [calls EXCEPT ![u] = @ + 1]
     /\ failedCalls' = IF llm = "fail" THEN failedCalls \cup {u} ELSE failedCalls
     /\ IF llm = "fail" \/ wr = "eacces"
          THEN /\ report' = [report EXCEPT ![u] = "failed"]
               /\ UNCHANGED <<artifact, writes>>
          ELSE IF wr = "enospc"
          THEN /\ report' = [report EXCEPT ![u] = "failed"]
               /\ artifact' = [artifact EXCEPT ![OutputPath(u)] = Corrupt]
               /\ writes' = writes \cup {OutputPath(u)}
          ELSE /\ report' = [report EXCEPT ![u] = "generated"]
               /\ artifact' = [artifact EXCEPT ![OutputPath(u)] = file]
               /\ writes' = writes \cup {OutputPath(u)}

Unchanged(u) ==
  /\ report' = [report EXCEPT ![u] = "unchanged"]
  /\ UNCHANGED <<artifact, writes, calls, failedCalls, faults>>

LlmOutcomes == {"ok", "nofield", "fail"}
WriteOutcomes == {"ok", "eacces", "enospc"}

\* ------------------------------------------------------------ the llm revision
\* if (pluginCurrentHash === pluginExistingHash), if (skillCurrentHash === skillExistingHash)
IsFreshIfExists(u) == artifact[OutputPath(u)].st # "absent"
IsFresh(u) == CurrentDigest(u) = getExistingHash(artifact[OutputPath(u)])

\* if (skillCurrentHash === skillExistingHash) { try { ... existing.skill?.pluginName === plugin.name
LlmSkillIsFreshByHash(u) == CurrentDigest(u) = getExistingHash(artifact[OutputPath(u)])
LlmSkillIsFreshNever(u) == FALSE
LlmSkillIsFresh(u) ==
  /\ CurrentDigest(u) = getExistingHash(artifact[OutputPath(u)])
  /\ artifact[OutputPath(u)].st = "valid"
  /\ artifact[OutputPath(u)].payload.pluginName = u[2]

\* generatePluginContent's / generateSkillContent's result: the name fields come from
\* the front matter; the slot tagline stands for the fields copied from the parsed
\* response (parsed.tagline, parsed.shortDescription, ...), left out of the JSON file
\* when the response has none.
LlmPayload(p, llm) ==
  [pluginName |-> p, display_name |-> "cur", tagline |-> IF llm = "nofield" THEN "none" ELSE "gen",
   full_summary |-> "gen", skills |-> << >>]
\* generatePluginContent's result also carries `skills: skillNames` (and skillCount).
LlmPluginPayload(p, llm) == [LlmPayload(p, llm) EXCEPT !.skills = SortedSkills(layout[p])]

LlmPlugin ==
  /\ variant = "llm" /\ pc = "plugin"
  /\ LET u == PluginUnit(CurPlugin)
     IN IF IsFresh(u) THEN Unchanged(u)
        ELSE IF ~pluginSrc[CurPlugin].ok
        THEN \* matter(pluginContent) throws inside the try block
             /\ report' = [report EXCEPT ![u] = "failed"]
             /\ UNCHANGED <<artifact, writes, calls, failedCalls, faults>>
        ELSE \E llm \in LlmOutcomes, wr \in WriteOutcomes :
               Regenerate(u, NewArtifact(CurrentDigest(u), LlmPluginPayload(CurPlugin, llm)), llm, wr)
  /\ Goto(PosAfterPlugin(pi))
  /\ UNCHANGED <<exitCode, todo, since>>
  /\ UNCHANGED Env
  /\ UNCHANGED SourceFiles
  /\ UNCHANGED workflowVars
  /\ UNCHANGED imageVars

LlmSkill ==
  /\ variant = "llm" /\ pc = "skill"
  /\ LET u == SkillUnit(CurPlugin, CurSkills[si])
     IN IF LlmSkillIsFresh(u) THEN Unchanged(u)
        ELSE \E llm \in LlmOutcomes, wr \in WriteOutcomes :
               Regenerate(u, NewArtifact(CurrentDigest(u), LlmPayload(CurPlugin, llm)), llm, wr)
  /\ Goto(PosAfterSkill(pi, si))
  /\ UNCHANGED <<exitCode, todo, since>>
  /\ UNCHANGED Env
  /\ UNCHANGED SourceFiles
  /\ UNCHANGED workflowVars
  /\ UNCHANGED imageVars

\* ------------------------------------------------------------ the toml revision
\* generateMissingSkillContent: the skills of the plugin whose table is absent or
\* lacks display_name, tagline or full_summary.
MissingSkillsRetried(p, file) ==
  LET m == SelectSeq(SortedSkills(layout[p]), LAMBDA s : EntryMissing(TomlEntry(file, s)))
  IN m \o m
MissingSkills(p, file) ==
  SelectSeq(SortedSkills(layout[p]), LAMBDA s : EntryMissing(TomlEntry(file, s)))

\* appendSkillToToml: a new [skills.<name>] table at the end of the file.
appendSkillToToml(file, s, llm) == [file EXCEPT !.tables = Append(@, GeneratedEntry(s, llm))]

\* main(), lines 476-506: website.skills.toml is created when absent; for the amplify
\* plugin it is parsed (outside any try block) and the missing skills are collected.
BeginPlugin ==
  /\ variant = "toml" /\ pc = "begin"
  /\ LET p == CurPlugin
         file == [skillsToml[p] EXCEPT !.exists = TRUE]
     IN /\ skillsToml' = [skillsToml EXCEPT ![p] = file]
        /\ IF p # "amplify" THEN pc' = "plugin" /\ todo' = << >> /\ si' = 0 /\ exitCode' = exitCode
           ELSE IF TOMLparseThrows(file)
             THEN pc' = "crashed" /\ todo' = << >> /\ si' = 0 /\ exitCode' = 1
           ELSE IF MissingSkills(p, file) = << >> \/ ~apiKey
             THEN pc' = "plugin" /\ todo' = << >> /\ si' = 0 /\ exitCode' = exitCode
           ELSE pc' = "enrich" /\ todo' = MissingSkills(p, file) /\ si' = 1 /\ exitCode' = exitCode
  /\ UNCHANGED <<pi, report, calls, failedCalls, writes, artifact, faults, since, layout, pluginSrc, skillMd>>
  /\ UNCHANGED Env
  /\ UNCHANGED workflowVars
  /\ UNCHANGED imageVars

\* One turn of generateMissingSkillContent's loop over the missing skills.
EnrichSkill ==
  /\ variant = "toml" /\ pc = "enrich"
  /\ LET p == CurPlugin
         s == todo[si]
         u == SkillUnit(p, s)
     IN \E llm \in LlmOutcomes :
          /\ faults + Bool01(llm # "ok") <= MaxFaults
          /\ faults' = faults + Bool01(llm # "ok")
          /\ calls' = [calls EXCEPT ![u] = @ + 1]
          /\ IF llm = "fail"
               THEN /\ failedCalls' = failedCalls \cup {u}
                    /\ UNCHANGED skillsToml
               ELSE /\ skillsToml' = [skillsToml EXCEPT ![p] = appendSkillToToml(@, s, llm)]
                    /\ UNCHANGED failedCalls
  /\ IF si < Len(todo) THEN si' = si + 1 /\ pc' = pc ELSE si' = 0 /\ pc' = "plugin"
  /\ UNCHANGED <<pi, todo, report, writes, artifact, exitCode, since, layout, pluginSrc, skillMd>>
  /\ UNCHANGED Env
  /\ UNCHANGED workflowVars
  /\ UNCHANGED imageVars

\* plugin: { name, displayName, tagline, skillCount, skills: plugin.skillNames, ... }
TomlPluginPayload(p) ==
  [pluginName |-> p, display_name |-> "cur", tagline |-> "cur", full_summary |-> "none",
   skills |-> SortedSkills(layout[p])]
TomlSkillPayload(p, e) ==
  [pluginName |-> p, display_name |-> e.display_name, tagline |-> e.tagline,
   full_summary |-> e.full_summary, skills |-> << >>]

\* main(), lines 508-548: both descriptors are read and parsed outside any try block,
\* then the plugin's artifact is written when its digest differs.
TomlPlugin ==
  /\ variant = "toml" /\ pc = "plugin"
  /\ LET p == CurPlugin
         u == PluginUnit(p)
     IN IF ~pluginSrc[p].ok \/ TOMLparseThrows(skillsToml[p])
          THEN /\ Crash
               /\ UNCHANGED <<report, calls, failedCalls, writes, artifact, faults>>
          ELSE /\ IF IsFresh(u) THEN Unchanged(u)
                  ELSE \E wr \in WriteOutcomes :
                         Regenerate(u, NewArtifact(CurrentDigest(u), TomlPluginPayload(p)), "none", wr)
               /\ Goto(PosAfterPlugin(pi))
               /\ exitCode' = exitCode
  /\ UNCHANGED <<todo, since>>
  /\ UNCHANGED Env
  /\ UNCHANGED SourceFiles
  /\ UNCHANGED workflowVars
  /\ UNCHANGED imageVars

\* main(), lines 551-593, one skill.
TomlSkill ==
  /\ variant = "toml" /\ pc = "skill"
  /\ LET p == CurPlugin
         s == CurSkills[si]
         u == SkillUnit(p, s)
         e == TomlEntry(skillsToml[p], s)
     IN IF e = NoEntry
          THEN /\ report' = [report EXCEPT ![u] = "failed"]
               /\ UNCHANGED <<artifact, writes, calls, failedCalls, faults>>
          ELSE IF IsFresh(u) THEN Unchanged(u)
          ELSE \E wr \in WriteOutcomes :
                 Regenerate(u, NewArtifact(CurrentDigest(u), TomlSkillPayload(p, e)), "none", wr)
  /\ Goto(PosAfterSkill(pi, si))
  /\ UNCHANGED <<exitCode, todo, since>>
  /\ UNCHANGED Env
  /\ UNCHANGED SourceFiles
  /\ UNCHANGED workflowVars
  /\ UNCHANGED imageVars

\* ------------------------------------------------------------ between runs
\* An author edits one source file: "cosmetic" appends a byte to the unit's descriptor
\* (PLUGIN.md, SKILL.md, website.plugin.toml, website.skills.toml), "content" changes a
\* value of the skill's table, "doc" appends a byte to SKILL.md under the toml revision.
EditSource ==
  /\ Ended /\ runs > 0 /\ changes < MaxChanges /\ since.run # runs + 1
  /\ \E u \in Discovered, kind \in {"cosmetic", "content", "doc"} :
       /\ kind = "content" => variant = "toml" /\ u[1] = "skill" /\ TablesOf(skillsToml[u[2]], u[3]) # {}
       /\ kind = "doc" => variant = "toml" /\ u[1] = "skill"
       /\ pluginSrc' = IF kind = "cosmetic" /\ u[1] = "plugin"
                         THEN [pluginSrc EXCEPT ![u[2]].pad = @ + 1] ELSE pluginSrc
       /\ skillMd' = IF u[1] = "skill" /\ (kind = "doc" \/ (kind = "cosmetic" /\ variant = "llm"))
                       THEN [skillMd EXCEPT ![<<u[2], u[3]>>].pad = @ + 1] ELSE skillMd
       /\ skillsToml' =
            IF u[1] = "skill" /\ variant = "toml" /\ kind = "cosmetic"
              THEN [skillsToml EXCEPT ![u[2]].pad = @ + 1, ![u[2]].exists = TRUE]
            ELSE IF kind = "content"
              THEN [skillsToml EXCEPT ![u[2]].tables =
                      [i \in 1..Len(@) |-> IF @[i].name = u[3] THEN [@[i] EXCEPT !.ver = @ + 1] ELSE @[i]]]
            ELSE skillsToml
       /\ since' = [run |-> runs + 1, n |-> 1, kind |-> kind, unit |-> u,
                    ok |-> RunWasOk, good |-> RunWasGood]
  /\ changes' = changes + 1
  /\ UNCHANGED <<variant, apiKey, layout, artifact, clock, runs, faults, pc, pi, si, todo,
                 report, calls, failedCalls, writes, exitCode>>
  /\ UNCHANGED workflowVars
  /\ UNCHANGED imageVars

\* The output directory is damaged between runs: a file is cut short (invalid JSON) or
\* replaced by JSON without a sourceHash.
DamageArtifact ==
  /\ Ended /\ runs > 0 /\ changes < MaxChanges /\ since.run # runs + 1
  /\ \E u \in Discovered, how \in {"corrupt", "nohash"} :
       /\ artifact[OutputPath(u)].st = "valid"
       /\ artifact' = [artifact EXCEPT ![OutputPath(u)] =
                         IF how = "corrupt" THEN Corrupt ELSE [@ EXCEPT !.sourceHash = << >>]]
       /\ since' = [run |-> runs + 1, n |-> 1, kind |-> how, unit |-> u,
                    ok |-> RunWasOk, good |-> RunWasGood]
  /\ changes' = changes + 1
  /\ UNCHANGED <<variant, apiKey, clock, runs, faults, pc, pi, si, todo,
                 report, calls, failedCalls, writes, exitCode>>
  /\ UNCHANGED SourceFiles
  /\ UNCHANGED workflowVars
  /\ UNCHANGED imageVars

\* After a run that left every unit generated or unchanged, an author deletes a skill's
\* [skills.<name>] table from website.skills.toml.
RemoveTable ==
  /\ Ended /\ runs > 0 /\ changes < MaxChanges /\ since.run # runs + 1
  /\ variant = "toml" /\ RunWasOk
  /\ \E u \in Discovered :
       /\ u[1] = "skill" /\ TablesOf(skillsToml[u[2]], u[3]) # {}
       /\ skillsToml' = [skillsToml EXCEPT ![u[2]].tables = SelectSeq(@, LAMBDA e : e.name # u[3])]
       /\ since' = [run |-> runs + 1, n |-> 1, kind |-> "remove", unit |-> u,
                    ok |-> RunWasOk, good |-> RunWasGood]
  /\ changes' = changes + 1
  /\ UNCHANGED <<variant, apiKey, layout, pluginSrc, skillMd, artifact, clock, runs, faults,
                 pc, pi, si, todo, report, calls, failedCalls, writes, exitCode>>
  /\ UNCHANGED workflowVars
  /\ UNCHANGED imageVars

\* After a run that left every unit generated or unchanged, an author moves a skill's
\* directory to another plugin, together with its table of website.skills.toml; no
\* byte of SKILL.md or of the table changes.
MoveSkill ==
  /\ Ended /\ runs > 0 /\ changes < MaxChanges /\ since.run # runs + 1
  /\ RunWasOk
  /\ \E p, q \in Plugins : \E s \in layout[p] :
       /\ p # q /\ s \notin layout[q]
       /\ layout' = [layout EXCEPT ![p] = @ \ {s}, ![q] = @ \cup {s}]
       /\ skillMd' = [skillMd EXCEPT ![<<q, s>>] = skillMd[<<p, s>>], ![<<p, s>>] = [ok |-> TRUE, pad |-> 0]]
       /\ skillsToml' =
            IF variant = "toml" /\ TablesOf(skillsToml[p], s) # {}
              THEN [skillsToml EXCEPT
                      ![p].tables = SelectSeq(@, LAMBDA e : e.name # s),
                      ![q].tables = @ \o SelectSeq(skillsToml[p].tables, LAMBDA e : e.name = s),
                      ![q].exists = TRUE]
              ELSE skillsToml
       /\ since' = [run |-> runs + 1, n |-> 1, kind |-> "move", unit |-> SkillUnit(q, s),
                    ok |-> RunWasOk, good |-> RunWasGood]
  /\ changes' = changes + 1
  /\ UNCHANGED <<variant, apiKey, pluginSrc, artifact, clock, runs, faults,
                 pc, pi, si, todo, report, calls, failedCalls, writes, exitCode>>
  /\ UNCHANGED workflowVars
  /\ UNCHANGED imageVars

\* The next run is started from an environment without DEEPSEEK_API_KEY.
UnsetCredential ==
  /\ Ended /\ runs > 0 /\ changes < MaxChanges /\ since.run # runs + 1
  /\ apiKey /\ apiKey' = FALSE
  /\ since' = [run |-> runs + 1, n |-> 1, kind |-> "nokey", unit |-> <<"", "", "">>,
               ok |-> RunWasOk, good |-> RunWasGood]
  /\ changes' = changes + 1
  /\ UNCHANGED <<variant, artifact, clock, runs, faults, pc, pi, si, todo,
                 report, calls, failedCalls, writes, exitCode>>
  /\ UNCHANGED SourceFiles
  /\ UNCHANGED workflowVars
  /\ UNCHANGED imageVars

Next ==
  \/ StartRun
  \/ LlmPlugin
  \/ LlmSkill
  \/ BeginPlugin
  \/ EnrichSkill
  \/ TomlPlugin
  \/ TomlSkill
  \/ EditSource
  \/ DamageArtifact
  \/ UnsetCredential
  \/ RemoveTable
  \/ MoveSkill

Spec == Init /\ [][Next]_vars

\* ------------------------------------------------ generate-workflow-diagram.ts
\* The script builds one artifact from hooks.json, website.philosophy.toml and the
\* SKILL.md files of the intelligence-scale plugin. Two revisions: "toml" assembles the
\* artifact from the TOML file and reads --force; "llm" asks the DeepSeek API for the
\* tooltips. A text is a sequence of lines; a SKILL.md may hold any line, also one
\* that reads ---BOUNDARY---.
MaxWorkflowRuns == 2
MaxWorkflowEdits == 1

Boundary == "---BOUNDARY---"
Texts == {<<"x">>, <<"y">>, <<"x", Boundary, "x">>}

\* The orders a directory with the entries S can be listed in.
Listings(S) ==
  {q \in [1..Cardinality(S) -> S] : \A i, j \in 1..Cardinality(S) : q[i] = q[j] => i = j}

\* Array.prototype.join(sep)
RECURSIVE join(_, _)
join(parts, sep) ==
  IF parts = << >> THEN << >>
  ELSE IF Len(parts) = 1 THEN parts[1]
  ELSE parts[1] \o sep \o join(Tail(parts), sep)

\* [hooksContent, websiteContent, ...skillContents].join("\n---BOUNDARY---\n")
computeCombinedHash(hooksContent, websiteContent, skillContents) ==
  computeHash(join(<<hooksContent, websiteContent>> \o skillContents, <<Boundary>>))

\* readFileSync(..., "utf-8") of the two configuration files.
HooksText(file) == <<IF file.ok THEN "json" ELSE "junk">> \o file.text
WebsiteText(file) ==
  <<IF file.ok THEN "toml" ELSE "junk", IF file.events THEN "events" ELSE "noevents">> \o file.text

\* discoverSkills(): the entries in listing order, then sort() by name.localeCompare.
discoverSkills(listing) == SelectSeq(SkillOrder, LAMBDA s : \E i \in 1..Len(listing) : listing[i] = s)

\* discoverPlugins(): one element per listed plugin directory, in listing order, each
\* with its skill names sorted.
discoverPlugins(listing) ==
  [i \in 1..Len(listing) |-> [name |-> listing[i], skillNames |-> SortedSkills(layout[listing[i]])]]

WorkflowEnded == wpc \in {"idle", "done", "exit1", "crashed"}

\* skills.map((s) => s.content)
SkillContents(names) == [i \in 1..Len(names) |-> skillDocs[names[i]]]

NewWorkflowData(h) == [st |-> "valid", sourceHash |-> h, generatedAt |-> wclock, payload |-> NoPayload]

\* The content pipeline is not run: its variables keep these values.
ContentIdle ==
  /\ variant = "toml" /\ apiKey \in BOOLEAN
  /\ layout = [p \in Plugins |-> IF p = "amplify" THEN {"a", "b"} ELSE {}]
  /\ pluginSrc = [p \in Plugins |-> [ok |-> TRUE, pad |-> 0]]
  /\ skillsToml = [p \in Plugins |-> [exists |-> FALSE, ok |-> TRUE, pad |-> 0, tables |-> << >>]]
  /\ skillMd = [k \in Plugins \X SkillNames |-> [ok |-> TRUE, pad |-> 0]]
  /\ artifact = [path \in AllPaths |-> Absent]
  /\ clock = 0
  /\ runs = 0 /\ changes = 0 /\ faults = 0
  /\ pc = "idle" /\ pi = 0 /\ si = 0 /\ todo = << >>
  /\ report = [u \in AllUnits |-> "none"]
  /\ calls = [u \in AllUnits |-> 0]
  /\ failedCalls = {}
  /\ writes = {}
  /\ exitCode = 0
  /\ since = NoChange(0, FALSE, FALSE)

InitWorkflow ==
  /\ ContentIdle
  /\ ImagesIdle
  /\ revision \in {"toml", "llm"}
  /\ dirListing \in [plugins : Listings(Plugins), skills : Listings(SkillNames)]
  /\ hooksRaw \in [ok : BOOLEAN, text : {<<"x">>}]
  /\ websiteRaw \in [ok : BOOLEAN, events : BOOLEAN, text : {<<"x">>}]
  /\ skillDocs \in [SkillNames -> Texts]
  /\ workflowFile = Absent
  /\ forceRegenerate = FALSE
  /\ plugins = << >> /\ skills = << >> /\ currentHash = Null
  /\ wpc = "idle" /\ wruns = 0 /\ wedits = 0 /\ wclock = 0
  /\ wreport = "none" /\ wexit = 0

\* const plugins = discoverPlugins() of the content pipeline, over this directory listing.
DiscoverPlugins ==
  /\ plugins = << >>
  /\ plugins' = discoverPlugins(dirListing.plugins)
  /\ UNCHANGED <<revision, dirListing, hooksRaw, websiteRaw, skillDocs, workflowFile, forceRegenerate,
                 skills, currentHash, wpc, wruns, wedits, wclock, wreport, wexit>>
  /\ UNCHANGED contentVars
  /\ UNCHANGED imageVars

\* if (tomlEvents.length === 0), with tomlEvents = websiteConfig.philosophy.events || []
tomlEventsEmptyNever(file) == FALSE
tomlEventsEmpty(file) == ~file.events

\* main() up to the combined hash: the credential (llm), the sources, the parsers
\* (outside any try block), discoverSkills, the events check (toml).
StartWorkflowRun ==
  /\ WorkflowEnded /\ wruns < MaxWorkflowRuns
  /\ wruns' = wruns + 1 /\ wclock' = wclock + 1
  /\ wreport' = "none"
  /\ \E force \in BOOLEAN : forceRegenerate' = force
  /\ IF revision = "llm" /\ ~apiKey
       THEN wpc' = "exit1" /\ wexit' = 1 /\ UNCHANGED <<skills, currentHash>>
     ELSE IF ~websiteRaw.ok \/ (revision = "llm" /\ ~hooksRaw.ok)
       THEN wpc' = "crashed" /\ wexit' = 1 /\ UNCHANGED <<skills, currentHash>>
     ELSE /\ skills' = discoverSkills(dirListing.skills)
          /\ IF revision = "toml" /\ tomlEventsEmpty(websiteRaw)
               THEN wpc' = "exit1" /\ wexit' = 1 /\ UNCHANGED currentHash
               ELSE /\ wpc' = "hashed" /\ wexit' = 0
                    /\ currentHash' = computeCombinedHash(HooksText(hooksRaw), WebsiteText(websiteRaw),
                                                          SkillContents(skills'))
  /\ UNCHANGED <<revision, dirListing, hooksRaw, websiteRaw, skillDocs, workflowFile, plugins, wedits>>
  /\ UNCHANGED contentVars
  /\ UNCHANGED imageVars

\* if (!forceRegenerate && currentHash === existingHash)   -- toml revision
\* if (currentHash === existingHash)                       -- llm revision
WorkflowIsFresh ==
  /\ revision = "toml" => ~forceRegenerate
  /\ currentHash = getExistingHash(workflowFile)

\* main() from the hash comparison to its end. The toml revision writes outside any try
\* block; the llm revision calls the API and writes inside one whose catch exits 1.
DecideWorkflow ==
  /\ wpc = "hashed"
  /\ IF WorkflowIsFresh
       THEN wreport' = "unchanged" /\ wpc' = "done" /\ wexit' = 0 /\ UNCHANGED workflowFile
       ELSE \E llm \in {"ok", "fail"}, wr \in WriteOutcomes :
              /\ revision = "toml" => llm = "ok"
              /\ llm = "fail" => wr = "ok"
              /\ IF llm = "fail" \/ wr # "ok"
                   THEN /\ wreport' = "failed" /\ wexit' = 1
                        /\ wpc' = IF revision = "toml" THEN "crashed" ELSE "exit1"
                        /\ workflowFile' = IF wr = "enospc" THEN Corrupt ELSE workflowFile
                   ELSE /\ wreport' = "generated" /\ wexit' = 0 /\ wpc' = "done"
                        /\ workflowFile' = NewWorkflowData(currentHash)
  /\ UNCHANGED <<revision, dirListing, hooksRaw, websiteRaw, skillDocs, forceRegenerate,
                 plugins, skills, currentHash, wruns, wedits, wclock>>
  /\ UNCHANGED contentVars
  /\ UNCHANGED imageVars

\* Between runs an author rewrites one SKILL.md.
EditWorkflowSource ==
  /\ WorkflowEnded /\ wruns > 0 /\ wedits < MaxWorkflowEdits
  /\ wedits' = wedits + 1
  /\ \E s \in SkillNames, t \in Texts :
       /\ t # skillDocs[s]
       /\ skillDocs' = [skillDocs EXCEPT ![s] = t]
  /\ UNCHANGED <<revision, dirListing, hooksRaw, websiteRaw, workflowFile, forceRegenerate,
                 plugins, skills, currentHash, wpc, wruns, wclock, wreport, wexit>>
  /\ UNCHANGED contentVars
  /\ UNCHANGED imageVars

\* Between runs an author deletes the events from website.philosophy.toml.
RemoveEvents ==
  /\ WorkflowEnded /\ wruns > 0 /\ wedits < MaxWorkflowEdits
  /\ websiteRaw.ok /\ websiteRaw.events
  /\ wedits' = wedits + 1
  /\ websiteRaw' = [websiteRaw EXCEPT !.events = FALSE, !.text = <<"y">>]
  /\ UNCHANGED <<revision, dirListing, hooksRaw, skillDocs, workflowFile, forceRegenerate,
                 plugins, skills, currentHash, wpc, wruns, wclock, wreport, wexit>>
  /\ UNCHANGED contentVars
  /\ UNCHANGED imageVars

NextWorkflow ==
  \/ DiscoverPlugins
  \/ StartWorkflowRun
  \/ DecideWorkflow
  \/ EditWorkflowSource
  \/ RemoveEvents

SpecWorkflow == InitWorkflow /\ [][NextWorkflow]_vars

\* ---------------------------------------------------------------------------
\* generate-philosophy-images.ts: one image per entry of philosophyPrompts.
\* ---------------------------------------------------------------------------
MaxImageRuns == 2
MaxImageEdits == 1

ImagesEnded == ipc \in {"idle", "done", "exit1"}

\* What `await generateImage(phil.prompt)` can do: return a buffer, throw (HTTP status,
\* no images, no base64 data, network error), or never settle: fetch is given no
\* AbortSignal, so a peer that keeps the connection open and sends nothing decisive
\* leaves the promise pending.
generateImageOutcomes == {"buffer", "throws", "pending"}

\* if (existsSync(outputPath) && !process.argv.includes("--force"))
SkipImageNever(k) == FALSE
SkipImage(k) == imageFile[k].exists /\ ~argvForce

\* End of the for loop: the summary line, then process.exit(1) if failCount > 0.
AfterImage(fails) ==
  IF ii < Len(philosophyPrompts)
    THEN /\ ii' = ii + 1 /\ ipc' = "image" /\ iexit' = iexit
    ELSE /\ ii' = ii
         /\ ipc' = IF fails > 0 THEN "exit1" ELSE "done"
         /\ iexit' = IF fails > 0 THEN 1 ELSE 0

InitImages ==
  /\ ContentIdle
  /\ WorkflowIdle
  /\ cliproxyKey \in BOOLEAN
  /\ imageFile \in [Images -> {NoImage, [exists |-> TRUE, complete |-> TRUE, writtenIn |-> 0]}]
  /\ argvForce = FALSE
  /\ ipc = "idle" /\ ii = 0 /\ iruns = 0 /\ iedits = 0
  /\ successCount = 0 /\ failCount = 0
  /\ attempted = {} /\ skipped = {}
  /\ iexit = 0

\* main() up to the loop: the credential check, the two counters.
StartImagesRun ==
  /\ ImagesEnded /\ iruns < MaxImageRuns
  /\ iruns' = iruns + 1
  /\ \E force \in BOOLEAN : argvForce' = force
  /\ successCount' = 0 /\ failCount' = 0
  /\ attempted' = {} /\ skipped' = {}
  /\ IF ~cliproxyKey
       THEN ipc' = "exit1" /\ iexit' = 1 /\ ii' = 0
       ELSE ipc' = "image" /\ iexit' = 0 /\ ii' = 1
  /\ UNCHANGED <<cliproxyKey, imageFile, iedits>>
  /\ UNCHANGED contentVars
  /\ UNCHANGED workflowVars

\* One pass of the loop body up to the await: skip, or send the request.
BeginImage ==
  /\ ipc = "image"
  /\ LET k == philosophyPrompts[ii] IN
       IF SkipImage(k)
         THEN /\ successCount' = successCount + 1
              /\ skipped' = skipped \cup {k}
              /\ AfterImage(failCount)
              /\ UNCHANGED attempted
         ELSE /\ attempted' = attempted \cup {k}
              /\ ipc' = "awaiting"
              /\ UNCHANGED <<successCount, skipped, ii, iexit>>
  /\ UNCHANGED <<cliproxyKey, imageFile, argvForce, iruns, iedits, failCount>>
  /\ UNCHANGED contentVars
  /\ UNCHANGED workflowVars

\* The rest of the loop body: the promise settles, the file is written or the catch
\* block counts the failure; or the promise stays pending and main() never resumes.
SettleImage ==
  /\ ipc = "awaiting"
  /\ LET k == philosophyPrompts[ii] IN
     \E g \in generateImageOutcomes, wr \in WriteOutcomes :
       IF g = "pending"
         THEN /\ ipc' = "pending"
              /\ UNCHANGED <<imageFile, successCount, failCount, ii, iexit>>
       ELSE IF g = "buffer" /\ wr = "ok"
         THEN /\ imageFile' = [imageFile EXCEPT ![k] = [exists |-> TRUE, complete |-> TRUE, writtenIn |-> iruns]]
              /\ successCount' = successCount + 1
              /\ failCount' = failCount
              /\ AfterImage(failCount)
         ELSE /\ imageFile' = IF g = "buffer" /\ wr = "enospc"
                                THEN [imageFile EXCEPT ![k] = [exists |-> TRUE, complete |-> FALSE, writtenIn |-> iruns]]
                                ELSE imageFile
              /\ failCount' = failCount + 1
              /\ successCount' = successCount
              /\ AfterImage(failCount + 1)
  /\ UNCHANGED <<cliproxyKey, argvForce, iruns, iedits, attempted, skipped>>
  /\ UNCHANGED contentVars
  /\ UNCHANGED workflowVars

\* Between runs an image file is removed ("To regenerate one: rm <file>").
RemoveImage ==
  /\ ImagesEnded /\ iruns > 0 /\ iedits < MaxImageEdits
  /\ \E k \in Images :
       /\ imageFile[k].exists
       /\ imageFile' = [imageFile EXCEPT ![k] = NoImage]
  /\ iedits' = iedits + 1
  /\ UNCHANGED <<cliproxyKey, argvForce, ipc, ii, iruns, successCount, failCount,
                 attempted, skipped, iexit>>
  /\ UNCHANGED contentVars
  /\ UNCHANGED workflowVars

NextImages == StartImagesRun \/ BeginImage \/ SettleImage \/ RemoveImage

SpecImages == InitImages /\ [][NextImages]_vars

\* Node runs the next loop pass and the continuation of a settled promise; while the
\* promise is pending no step of main() is enabled.
FairSpecImages == SpecImages /\ WF_vars(BeginImage) /\ WF_vars(SettleImage)

\* ================================================================== claims
\* The run in progress (or the one that just ended) is the second or a later one and
\* nothing on disk changed since the run before it ended.
RerunUnchanged == runs >= 2 /\ since.run = runs /\ since.n = 0
NothingRewritten ==
  /\ writes = {}
  /\ \A path \in AllPaths : artifact[path].st = "valid" => artifact[path].generatedAt < clock

Decides(u) == report'[u] # report[u] /\ report'[u] # "none"
StaleByHash(u) ==
  \/ artifact[OutputPath(u)].st # "valid"
  \/ artifact[OutputPath(u)].sourceHash # CurrentDigest(u)
HasDigest(u) ==
  variant = "toml" /\ u[1] = "skill" => TablesOf(skillsToml[u[2]], u[3]) # {}

RunOver == runs > 0 /\ Ended

\* C3 (as stated): whatever fails for one unit, no error escapes main() and every
\* other discovered unit is still processed in the same run.
C3_UnitIsolation ==
  /\ pc # "crashed"
  /\ pc = "done" => \A u \in Discovered : report[u] # "none"

\* C4 (as stated): the exit status is 0 when every unit ended generated or unchanged
\* and non-zero when a unit failed or a fatal precondition was unmet.
C4_ExitStatus ==
  RunOver => (exitCode = 0 <=> (pc = "done" /\ \A u \in Discovered : report[u] \in {"generated", "unchanged"}))

\* The artifact holds invalid JSON, or JSON without a usable sourceHash.
Unusable(file) == file.st = "corrupt" \/ (file.st = "valid" /\ file.sourceHash = << >>)
DescriptorsParse(p) ==
  /\ pluginSrc[p].ok /\ skillsToml[p].ok
  /\ \A i \in 1..Len(skillsToml[p].tables) : skillsToml[p].tables[i].tagline # "undef"
  /\ \A i, j \in 1..Len(skillsToml[p].tables) :
       skillsToml[p].tables[i].name = skillsToml[p].tables[j].name => i = j

\* C5: a unit whose artifact is invalid JSON or has no usable sourceHash is never
\* reported unchanged; when it is written, the artifact is valid and records the unit's
\* current digest; and the run aborts only on a descriptor that does not parse, never
\* on an artifact.
C5_CorruptCacheRecovery ==
  [][/\ \A u \in Discovered :
          (Decides(u) /\ Unusable(artifact[OutputPath(u)])) =>
            /\ pc' # "crashed"
            /\ report'[u] # "unchanged"
            /\ report'[u] = "generated" =>
                 /\ artifact'[OutputPath(u)].st = "valid"
                 /\ artifact'[OutputPath(u)].sourceHash = CurrentDigest(u)
                 /\ artifact'[OutputPath(u)].sourceHash # << >>
     /\ (pc' = "crashed" /\ pc # "crashed") => ~DescriptorsParse(CurPlugin)]_vars

\* A damaged artifact has been replaced by a valid one in the run after the damage.
C5_Witness ==
  /\ since.run = runs /\ since.kind \in {"corrupt", "nohash"}
  /\ report[since.unit] = "generated"
  /\ artifact[OutputPath(since.unit)].st = "valid"
  /\ artifact[OutputPath(since.unit)].sourceHash = CurrentDigest(since.unit)
  /\ artifact[OutputPath(since.unit)].generatedAt = clock

\* One source file of one unit was edited between the previous run and this one.
EditedBefore == since.run = runs /\ since.n = 1 /\ since.kind \in {"cosmetic", "content", "doc"}

EditChangesDigest ==
  \/ since.kind = "content"
  \/ since.kind = "cosmetic" /\ (since.unit[1] = "plugin" \/ variant = "llm")

CuratedComplete(u) ==
  /\ variant = "toml"
  /\ u[1] = "skill" =>
       \E i \in 1..Len(skillsToml[u[2]].tables) :
         /\ skillsToml[u[2]].tables[i].name = u[3]
         /\ skillsToml[u[2]].tables[i].display_name # "none"
         /\ skillsToml[u[2]].tables[i].tagline # "none"
         /\ skillsToml[u[2]].tables[i].full_summary # "none"

Called(u) == calls'[u] > calls[u]

\* C7: the enrichment service is never called for a unit whose descriptor already
\* supplies all the descriptive fields.
C7_CuratedNeverEnriched ==
  [][\A u \in Discovered : Called(u) => ~CuratedComplete(u)]_vars

\* One skill of amplify has a complete curated table and was written without a call,
\* while its sibling was enriched in the same run.
C7_Witness ==
  /\ variant = "toml" /\ pc = "done"
  /\ \E u, v \in Discovered :
       /\ u[1] = "skill" /\ v[1] = "skill" /\ u[2] = "amplify" /\ v[2] = "amplify"
       /\ calls[v] > 0 /\ calls[u] = 0
       /\ report[u] = "generated"
       /\ TomlEntry(skillsToml["amplify"], u[3]).tagline = "cur"

\* C8 (as stated): enrichment never replaces, duplicates or overrides a field the
\* descriptor already supplies, also when other fields of the unit are missing.
C8_GenerationOnlyFillsGaps ==
  \A p \in Plugins : \A i, j \in 1..Len(skillsToml[p].tables) :
    (skillsToml[p].tables[i].name = skillsToml[p].tables[j].name
       /\ skillsToml[p].tables[i].display_name = "cur") => i = j

C10_FailedCallWritesNothing ==
  \A u \in failedCalls : report[u] # "generated"

\* C11 (as stated): a response that lacks a required field never leaves an artifact or
\* a descriptor table persisted with that field absent or undefined.
C11_IncompleteResponseIsFailure ==
  /\ \A p \in Plugins : \A i \in 1..Len(skillsToml[p].tables) :
       skillsToml[p].tables[i].tagline # "undef"
  /\ variant = "llm" =>
       \A path \in AllPaths : artifact[path].st = "valid" => artifact[path].payload.tagline # "none"

\* Some unit needs the enrichment service in the run that starts from this state: a
\* stale unit (llm revision), a skill of amplify without a complete table (toml).
NeedsEnrichment ==
  IF variant = "llm"
    THEN \E u \in Discovered :
           \/ StaleByHash(u)
           \/ u[1] = "skill" /\ artifact[OutputPath(u)].payload.pluginName # u[2]
    ELSE \E s \in layout["amplify"] :
           LET T == TablesOf(skillsToml["amplify"], s)
           IN \/ T = {}
              \/ \E i \in T : \/ skillsToml["amplify"].tables[i].display_name = "none"
                              \/ skillsToml["amplify"].tables[i].tagline = "none"
                              \/ skillsToml["amplify"].tables[i].full_summary = "none"

\* C12 (as stated): without the credential a run aborts with a non-zero exit before
\* any unit is processed when some unit needs enrichment, and completes successfully
\* when every unit is fresh or fully curated.
C12_CredentialFatalIffNeeded ==
  [][(StartRun /\ ~apiKey) =>
       IF NeedsEnrichment
         THEN pc' = "exit1" /\ exitCode' # 0
         ELSE pc' # "exit1" /\ exitCode' = 0]_vars

\* C13 (as stated): distinct units never read or overwrite each other's artifact file:
\* a unit the run reports generated or unchanged has, at the end of the run, an
\* artifact that was written for it.
C13_OneArtifactPerUnit ==
  pc = "done" =>
       \A u \in Discovered :
         (report[u] \in {"generated", "unchanged"} /\ artifact[OutputPath(u)].st = "valid")
           => artifact[OutputPath(u)].payload.pluginName = u[2]

\* C14 (as stated): no step of a run creates or changes a file of the source tree
\* (descriptors and skill documents); a run only writes artifact files.
C14_SourceTreeReadOnly ==
  [][~Ended => (layout' = layout /\ pluginSrc' = pluginSrc /\ skillMd' = skillMd
               /\ skillsToml' = skillsToml)]_vars

\* C15 (as stated): within a run a call for a unit is made only by the step that has
\* hashed the unit and found it stale, an artifact is written only by such a step, a
\* unit's terminal state never changes within the run, and every unit has one when
\* the run reaches its end.
C15_PerUnitOrder ==
  [][~Ended =>
       /\ \A u \in Discovered :
            /\ Called(u) => (Decides(u) /\ report'[u] \in {"generated", "failed"})
            /\ report[u] # "none" => report'[u] = report[u]
            /\ pc' = "done" => report'[u] \in {"unchanged", "generated", "failed"}
       /\ \A path \in AllPaths :
            artifact'[path] # artifact[path] =>
              \E u \in Discovered :
                OutputPath(u) = path /\ Decides(u) /\ report'[u] \in {"generated", "failed"}]_vars

\* C16 (as stated): the steps of two units never interleave within a run: when a step
\* of one unit happens (a call for it, or its hashing and decision), every other unit
\* that has had a step in this run has already reached its terminal state.
C16_OneUnitAtATime ==
  [][\A u, v \in Discovered :
       (u # v /\ ~Ended /\ (Called(u) \/ Decides(u)) /\ calls[v] > 0) => report[v] # "none"]_vars

\* The names of the model in lexicographic (code unit) order.
NamesInOrder == <<"a", "amplify", "b", "other">>
Rank(n) == CHOOSE i \in 1..Len(NamesInOrder) : NamesInOrder[i] = n
IsSortedNames(seq) == \A i, j \in 1..Len(seq) : i < j => Rank(seq[i]) < Rank(seq[j])

\* C17 (as stated): whatever order the directories are listed in, the plugins, the
\* skills of each plugin and the skills of the workflow unit are processed in
\* lexicographic order of their names.
C17_LexicographicOrder ==
  /\ IsSortedNames([i \in 1..Len(plugins) |-> plugins[i].name])
  /\ \A i \in 1..Len(plugins) : IsSortedNames(plugins[i].skillNames)
  /\ IsSortedNames(skills)

\* C18: every artifact a run writes is valid JSON that records the digest of the unit's
\* source as this run read it, this run's generatedAt and the unit's payload; right
\* after the write the unit's staleness check finds it fresh.
C18_WrittenRecordsDigest ==
  [][\A u \in Discovered :
       (Decides(u) /\ report'[u] = "generated") =>
         /\ artifact'[OutputPath(u)].st = "valid"
         /\ artifact'[OutputPath(u)].sourceHash = CurrentDigest(u)
         /\ artifact'[OutputPath(u)].generatedAt = clock
         /\ artifact'[OutputPath(u)].payload.pluginName = u[2]
         /\ OutputPath(u) \in writes'
         /\ IsFresh(u)'
         /\ (variant = "llm" /\ u[1] = "skill") => LlmSkillIsFresh(u)']_vars

\* In the run after an edit of a skill's table the skill has been written: its artifact
\* carries this run's time and the digest of the edited table.
C18_Witness ==
  /\ since.run = runs /\ since.kind = "content" /\ runs = 2
  /\ report[since.unit] = "generated"
  /\ artifact[OutputPath(since.unit)].generatedAt = clock
  /\ artifact[OutputPath(since.unit)].sourceHash = CurrentDigest(since.unit)
  /\ OutputPath(since.unit) \in writes

\* C19 (as stated): a run started with --force that reaches its end has rewritten the
\* artifact, also when the recorded sourceHash equals the current digest.
C19_ForceRewritesAll ==
  (wpc = "done" /\ forceRegenerate) => (wreport = "generated" /\ workflowFile.generatedAt = wclock)

\* The strings that contribute to the composite digest, in hashing order.
Contributions == <<HooksText(hooksRaw), WebsiteText(websiteRaw)>> \o SkillContents(skills)
Swap(seq, i, j) ==
  [k \in 1..Len(seq) |-> IF k = i THEN seq[j] ELSE IF k = j THEN seq[i] ELSE seq[k]]

\* C20 (as stated): the composite digest is a function of the ordered sequence of the
\* contributing strings, and exchanging two of them that differ gives another digest.
C20_DigestOrderSensitive ==
  wpc = "hashed" =>
    /\ currentHash = computeCombinedHash(Contributions[1], Contributions[2], SubSeq(Contributions, 3, Len(Contributions)))
    /\ \A i, j \in 1..Len(Contributions) :
         Contributions[i] # Contributions[j] =>
           computeHash(join(Swap(Contributions, i, j), <<Boundary>>)) # currentHash

\* C21: in one run chat.completions.create is called at most once for a unit, and
\* a unit whose call threw has had exactly that one call.
C21_AtMostOneCall ==
  \A u \in AllUnits :
    /\ calls[u] <= 1
    /\ u \in failedCalls => calls[u] = 1

\* A run ended in which one unit's call threw and a later unit was still called, each
\* of them once.
C21_Witness ==
  /\ pc = "done"
  /\ \E u, v \in Discovered :
       /\ u # v /\ u \in failedCalls /\ v \notin failedCalls
       /\ calls[u] = 1 /\ calls[v] = 1

\* C22 (as stated): when a run that discovered its units has ended, every discovered
\* unit has its console line: generated, unchanged or failed; none is left out.
C22_EveryUnitAccounted ==
  (RunOver /\ pc # "exit1") =>
    \A u \in Discovered : report[u] \in {"generated", "unchanged", "failed"}

\* C23 (as stated): every run terminates: a run that has started reaches its end.
C23_EveryRunTerminates == (ipc \in {"image", "awaiting"}) ~> ImagesEnded

\* C30: every configured image is attempted or skipped whatever happened to the
\* earlier ones; generateImage is called for an image only if its file is absent or
\* --force was given; at the end successCount + failCount is the number of images and
\* the exit status is non-zero exactly when failCount > 0.
C30_ImagesLoop ==
  [][ /\ (ipc = "image" /\ ipc' = "awaiting") =>
           (~imageFile[philosophyPrompts[ii]].exists \/ argvForce)
      /\ (ipc \in {"image", "awaiting"} /\ ImagesEnded') =>
           /\ attempted' \cup skipped' = Images
           /\ successCount' + failCount' = Len(philosophyPrompts)
           /\ (iexit' # 0) <=> (failCount' > 0)
    ]_vars

\* A run has ended in which the first image failed, a later one was skipped as
\* existing and another was generated.
C30_Witness ==
  /\ ipc = "exit1" /\ cliproxyKey
  /\ failCount = 1 /\ successCount = 2
  /\ philosophyPrompts[1] \in attempted
  /\ ~(imageFile[philosophyPrompts[1]].exists /\ imageFile[philosophyPrompts[1]].writtenIn = iruns)
  /\ skipped # {}
  /\ \E k \in attempted : imageFile[k].writtenIn = iruns /\ imageFile[k].complete

\* Every descriptor parses as its author wrote it, and the credential is set.
AuthoredOk ==
  /\ apiKey
  /\ \A p \in Plugins : pluginSrc[p].ok /\ skillsToml[p].ok
  /\ \A k \in Plugins \X SkillNames : skillMd[k].ok

\* C24 (as stated): in a run over sources unchanged since the run before, no step in
\* which the enrichment service and the disk work aborts the run or reports a unit
\* failed, whatever the earlier run left behind.
C24_SelfHealing ==
  [][(RerunUnchanged /\ AuthoredOk /\ faults' = faults) =>
       /\ pc' # "crashed"
       /\ \A u \in Discovered : Decides(u) => report'[u] \in {"generated", "unchanged"}]_vars

\* C26 (as stated): website.skills.toml never holds more than one [skills.<name>]
\* table for a name, whatever runs have taken place.
C26_OneTablePerSkill ==
  \A p \in Plugins, s \in SkillNames : Cardinality(TablesOf(skillsToml[p], s)) <= 1

\* C28 (as stated): when a run has ended and nothing was edited since, a discovered
\* skill without a table in website.skills.toml has no artifact of its own in the
\* skills output directory.
C28_OmittedSkillHasNoArtifact ==
  (pc = "done" /\ variant = "toml" /\ since.run # runs + 1) =>
    \A p \in Plugins : \A s \in layout[p] :
      TomlEntry(skillsToml[p], s) = NoEntry =>
        ~(/\ artifact[OutputPath(SkillUnit(p, s))].st = "valid"
          /\ artifact[OutputPath(SkillUnit(p, s))].payload.pluginName = p)

\* C27 (as stated): when a run has ended with no unit failed and nothing was edited
\* since, every discovered skill's artifact names a plugin that holds the skill.
C27_PluginNameCurrent ==
  (pc = "done" /\ since.run # runs + 1
     /\ \A u \in Discovered : report[u] \in {"generated", "unchanged"}) =>
    \A u \in Discovered :
      u[1] = "skill" =>
        /\ artifact[OutputPath(u)].st = "valid"
        /\ \E p \in Plugins :
             p = artifact[OutputPath(u)].payload.pluginName /\ u[3] \in layout[p]

\* C25 (as stated): a plugin reported unchanged has an artifact whose skills list is
\* the list of the plugin's skill directories as this run discovered them.
C25_UnchangedPluginIsCurrent ==
  \A p \in Plugins :
    (report[PluginUnit(p)] = "unchanged" /\ since.run # runs + 1) =>
      artifact[OutputPath(PluginUnit(p))].payload.skills = SortedSkills(layout[p])

\* C29: under the revision that reads the diagram events from website.philosophy.toml,
\* a run over a configuration without events ends at once with a non-zero status and
\* the artifact as it was, with or without --force and whatever the digest; and no
\* step of that revision changes the artifact while the configuration has no events.
C29_NoEventsNoWrite ==
  [][/\ (revision = "toml" /\ websiteRaw.ok /\ ~websiteRaw.events /\ wruns' = wruns + 1) =>
          /\ wpc' = "exit1" /\ wexit' # 0
          /\ workflowFile' = workflowFile
     /\ (revision = "toml" /\ workflowFile' # workflowFile) => websiteRaw.events]_vars

\* The artifact of an earlier run is still in place after a run with --force over the
\* configuration whose events were deleted.
C29_Witness ==
  /\ revision = "toml" /\ wruns = 2 /\ wpc = "exit1" /\ wexit = 1
  /\ ~websiteRaw.events /\ forceRegenerate
  /\ workflowFile.st = "valid" /\ workflowFile.generatedAt = 1
  /\ workflowFile.sourceHash #
       computeCombinedHash(HooksText(hooksRaw), WebsiteText(websiteRaw), SkillContents(skills))
====
